---- MODULE Spec2Model ----
(***************************************************************************)
(* Model of lib/media.js (media extraction from Parsoid HTML and the merge *)
(* with per-title metadata).  Strings are sequences of one-character       *)
(* strings, DOM nodes are records, JS objects are functions from field     *)
(* names to values whose domain holds the defined fields only.  given is   *)
(* the record list as handed to combineResponses, before it changes the    *)
(* records in place.  subject and variant are the argument and the result  *)
(* of getMediaType called on its own.  The remaining variables model       *)
(* lib/mwapi.js: siteInfoCache, the promises it holds, the siteinfo        *)
(* requests issued, what getSiteInfo returned to each caller, and the      *)
(* queryForMetadata calls.                                                 *)
(***************************************************************************)
EXTENDS Integers, Sequences, FiniteSets, TLC

VARIABLES html, pc, ret, given, pageMediaList, apiResponse, combined,
          subject, variant,
          siteInfoCache, promises, requests, returned, queries

mediaVars == <<html, ret, given, pageMediaList, apiResponse, combined>>
classifyVars == <<subject, variant>>
apiVars == <<siteInfoCache, promises, requests, returned, queries>>

vars == <<pc, mediaVars, classifyVars, apiVars>>

\* Largest number of nodes in an input document.
MaxElems == 3

MIN_IMAGE_SIZE == 48

(***************************************************************************)
(* Strings                                                                 *)
(***************************************************************************)
Digits == <<"0", "1", "2", "3", "4", "5", "6", "7", "8", "9">>

IsDigit(c) == \E d \in 1..Len(Digits) : Digits[d] = c

DigitVal(c) == (CHOOSE d \in 1..Len(Digits) : Digits[d] = c) - 1

RECURSIVE DecimalValue(_)
DecimalValue(s) ==
    IF s = <<>> THEN 0
    ELSE 10 * DecimalValue(SubSeq(s, 1, Len(s) - 1)) + DigitVal(s[Len(s)])

\* getAttribute: null when the attribute is missing, else its string value.
Null == [null |-> TRUE, s |-> <<>>]
Str(s) == [null |-> FALSE, s |-> s]

getAttribute(node, name) ==
    IF name \in DOMAIN node.attrs THEN Str(node.attrs[name]) ELSE Null

\* JS truthiness of a string-or-null value.
Truthy(v) == ~v.null /\ v.s # <<>>

\* JS ToNumber of a string-or-null value: null and "" give 0, a decimal
\* numeral its value, anything else NaN.
ToNumber(v) ==
    IF v.null \/ v.s = <<>> THEN [nan |-> FALSE, n |-> 0]
    ELSE IF \A i \in 1..Len(v.s) : IsDigit(v.s[i])
         THEN [nan |-> FALSE, n |-> DecimalValue(v.s)]
         ELSE [nan |-> TRUE, n |-> 0]

\* JS v < n for a string-or-null v and a number n: false when v is NaN.
LessThan(v, n) == LET x == ToNumber(v) IN ~x.nan /\ x.n < n

\* First position (from 1) at which sep occurs in s, 0 if none.
IndexOf(s, sep) ==
    LET hits == {i \in 1..(Len(s) - Len(sep) + 1) :
                    SubSeq(s, i, i + Len(sep) - 1) = sep}
    IN IF hits = {} THEN 0 ELSE CHOOSE i \in hits : \A j \in hits : i <= j

\* String.prototype.split with a non-empty separator.
RECURSIVE Split(_, _)
Split(s, sep) ==
    LET i == IndexOf(s, sep)
    IN IF i = 0 THEN <<s>>
       ELSE <<SubSeq(s, 1, i - 1)>> \o Split(SubSeq(s, i + Len(sep), Len(s)), sep)

\* s.replace(/^.\//, ''): drops a leading character followed by a slash.
StripRelative(s) ==
    IF Len(s) >= 2 /\ s[2] = "/" THEN SubSeq(s, 3, Len(s)) ELSE s

\* The percent escapes the model decodes.
Escapes == (<<"4", "1">> :> "A") @@ (<<"4", "2">> :> "B")

\* decodeURIComponent: [ok, s]; a % not followed by an escape is a URIError.
RECURSIVE decodeURIComponent(_)
decodeURIComponent(s) ==
    IF s = <<>> THEN [ok |-> TRUE, s |-> <<>>]
    ELSE IF s[1] # "%"
         THEN LET r == decodeURIComponent(Tail(s))
              IN [ok |-> r.ok, s |-> IF r.ok THEN <<s[1]>> \o r.s ELSE <<>>]
    ELSE IF Len(s) >= 3 /\ SubSeq(s, 2, 3) \in DOMAIN Escapes
         THEN LET r == decodeURIComponent(SubSeq(s, 4, Len(s)))
              IN [ok |-> r.ok,
                  s |-> IF r.ok THEN <<Escapes[SubSeq(s, 2, 3)]>> \o r.s ELSE <<>>]
    ELSE [ok |-> FALSE, s |-> <<>>]

(***************************************************************************)
(* DOM.  A node is [tag, attrs, cls, inner, text, kids, anc]: attrs maps   *)
(* the attribute names present to their values, cls is the set of class    *)
(* names, kids the descendants in document order, anc the ancestors from   *)
(* the parent up to the root.                                              *)
(***************************************************************************)
Chars_mwImage == <<"m", "w", ":", "I", "m", "a", "g", "e">>
Chars_mwVideo == <<"m", "w", ":", "V", "i", "d", "e", "o">>
Chars_mwAudio == <<"m", "w", ":", "A", "u", "d", "i", "o">>
Chars_mwMediaLink == <<"m", "w", ":", "M", "e", "d", "i", "a", "L", "i", "n", "k">>

\* lib/selectors.js
MATHOID_IMG_CLASS == "mwe-math-fallback-image-inline"
Blacklist == {"metadata", "noviewer"}
SpokenWikipediaId == <<"s", "p", "o", "k", "e", "n">>

StartsWith(s, prefix) == Len(s) >= Len(prefix) /\ SubSeq(s, 1, Len(prefix)) = prefix

\* Whether a node matches MediaSelectors.join().
MediaSelectors(node) ==
    \/ /\ "typeof" \in DOMAIN node.attrs
       /\ \/ StartsWith(node.attrs["typeof"], Chars_mwImage)
          \/ StartsWith(node.attrs["typeof"], Chars_mwVideo)
          \/ StartsWith(node.attrs["typeof"], Chars_mwAudio)
    \/ getAttribute(node, "rel") = Str(Chars_mwMediaLink)
    \/ MATHOID_IMG_CLASS \in node.cls

\* elem.querySelector(tags): position in kids of the first descendant with
\* one of the tags, 0 when there is none (null).
querySelector(elem, tags) ==
    LET hits == {i \in 1..Len(elem.kids) : elem.kids[i].tag \in tags}
    IN IF hits = {} THEN 0 ELSE CHOOSE i \in hits : \A j \in hits : i <= j

\* elem.closest(...): the element itself, then its ancestors outwards.
Lineage(elem) == <<elem>> \o elem.anc

\* Position in Lineage(elem) of the nearest node among matching (the nodes the
\* selector matches), 0 when there is none (null).
closestIndex(elem, matching) ==
    LET line == Lineage(elem)
        hits == {i \in 1..Len(line) : line[i] \in matching}
    IN IF hits = {} THEN 0 ELSE CHOOSE i \in hits : \A j \in hits : i <= j

(***************************************************************************)
(* Media types                                                             *)
(***************************************************************************)
\* selector {} stands for a null selector.
MediaType(selector, name) == [selector |-> selector, name |-> name]

Image == MediaType({"img"}, "image")
Video == MediaType({"video"}, "video")
Audio == MediaType({"audio", "video"}, "audio")
Pronunciation == MediaType({}, Audio.name)
MathImage == MediaType({}, Image.name)
Unknown == MediaType({}, "unknown")
\* getMediaType returning nothing
Undefined == MediaType({}, "undefined")

isMathoidImage(elem) == MATHOID_IMG_CLASS \in elem.cls

\* getMediaType testing rel before typeof.
getMediaTypeRelFirst(elem) ==
    IF getAttribute(elem, "rel") = Str(Chars_mwMediaLink) THEN Pronunciation
    ELSE IF Truthy(getAttribute(elem, "typeof"))
    THEN LET t == getAttribute(elem, "typeof").s
             head == SubSeq(t, 1, IF Len(t) < 8 THEN Len(t) ELSE 8)
         IN CASE head = Chars_mwImage -> Image
              [] head = Chars_mwVideo -> Video
              [] head = Chars_mwAudio -> Audio
              [] OTHER -> Unknown
    ELSE IF isMathoidImage(elem) THEN MathImage
    ELSE Undefined

getMediaType(elem) ==
    IF Truthy(getAttribute(elem, "typeof"))
    THEN LET t == getAttribute(elem, "typeof").s
             head == SubSeq(t, 1, IF Len(t) < 8 THEN Len(t) ELSE 8)
         IN CASE head = Chars_mwImage -> Image
              [] head = Chars_mwVideo -> Video
              [] head = Chars_mwAudio -> Audio
              [] OTHER -> Unknown
    ELSE IF getAttribute(elem, "rel") = Str(Chars_mwMediaLink) THEN Pronunciation
    ELSE IF isMathoidImage(elem) THEN MathImage
    ELSE Undefined

\* The nodes of elem's lineage that Blacklist.join() matches.
Blacklisted(elem) ==
    {Lineage(elem)[i] : i \in {j \in 1..Len(Lineage(elem)) :
                                  Lineage(elem)[j].cls \cap Blacklist # {}}}

isDisallowed(elem) == closestIndex(elem, Blacklisted(elem)) # 0

\* isTooSmall with the two comparisons joined by && instead of ||.
isTooSmallBoth(img) ==
    LET width == getAttribute(img, "width")
        height == getAttribute(img, "height")
    IN LessThan(width, MIN_IMAGE_SIZE) /\ LessThan(height, MIN_IMAGE_SIZE)

isTooSmall(img) ==
    LET width == getAttribute(img, "width")
        height == getAttribute(img, "height")
    IN LessThan(width, MIN_IMAGE_SIZE) \/ LessThan(height, MIN_IMAGE_SIZE)

\* The filter callback of getMediaItemInfoFromPage: "keep", "drop", or the
\* name of the error it throws.
FilterElem(elem) ==
    IF isMathoidImage(elem) THEN "keep"
    ELSE LET mediaType == getMediaType(elem)
         IN IF mediaType = Undefined THEN "TypeError"
            ELSE LET resource == IF mediaType.selector = {} THEN 0
                                 ELSE querySelector(elem, mediaType.selector)
                 IN IF mediaType = Image /\ resource = 0 THEN "TypeError"
                    ELSE IF /\ (mediaType # Image \/ ~isTooSmall(elem.kids[resource]))
                            /\ ~isDisallowed(elem)
                         THEN "keep" ELSE "drop"

(***************************************************************************)
(* Objects                                                                 *)
(***************************************************************************)
EmptyObject == [k \in {} |-> 0]

\* The field k with value v when defined holds, nothing otherwise.
Field(defined, k, v) == IF defined THEN k :> v ELSE EmptyObject

\* Object.assign with its arguments swapped: the target's fields win.
ObjectAssignKeepTarget(target, source) == target @@ source

\* Object.assign(target, source)
ObjectAssign(target, source) == source @@ target

\* delete obj[k]
Delete(obj, k) == [x \in DOMAIN obj \ {k} |-> obj[x]]

\* parseInt(v, 10) of a string-or-null: the leading decimal digits, NaN if none.
parseInt(v) ==
    LET s == IF v.null THEN <<"n", "u", "l", "l">> ELSE v.s
        stops == {i \in 1..Len(s) : ~IsDigit(s[i])}
        n == IF stops = {} THEN Len(s)
             ELSE (CHOOSE i \in stops : \A j \in stops : i <= j) - 1
    IN IF n = 0 THEN [nan |-> TRUE, n |-> 0]
       ELSE [nan |-> FALSE, n |-> DecimalValue(SubSeq(s, 1, n))]

\* The data-mw documents the model parses; any other text is not JSON.
DataMwEmpty == <<"{", "}">>
DataMwTimes == <<"{", "\"", "s", "t", "a", "r", "t", "t", "i", "m", "e", "\"", ":", "1", ",", "\"", "e", "n", "d", "t", "i", "m", "e", "\"", ":", "2", ",", "\"", "t", "h", "u", "m", "b", "t", "i", "m", "e", "\"", ":", "3", "}">>
DataMwBroken == <<"{", "\"", "s", "t", "a", "r", "t", "t", "i", "m", "e", "\"">>

\* JSON.parse of a string-or-null: [ok, null, obj]; a SyntaxError when not ok.
JSONParse(v) ==
    CASE v.null -> [ok |-> TRUE, null |-> TRUE, obj |-> EmptyObject]
      [] ~v.null /\ v.s = DataMwEmpty ->
            [ok |-> TRUE, null |-> FALSE, obj |-> EmptyObject]
      [] ~v.null /\ v.s = DataMwTimes ->
            [ok |-> TRUE, null |-> FALSE,
             obj |-> ("starttime" :> 1) @@ ("endtime" :> 2) @@ ("thumbtime" :> 3)]
      [] OTHER -> [ok |-> FALSE, null |-> FALSE, obj |-> EmptyObject]

\* a || b on strings-or-null
OrElse(a, b) == IF Truthy(a) THEN a ELSE b

\* The callback building one entry of sources: [error, val].
SourceInfo(source) ==
    LET type == getAttribute(source, "type")
        parts == Split(type.s, <<";", " ">>)
        quoted == Split(parts[2], <<"\"">>)
    IN IF type.null \/ Len(parts) < 2 \/ Len(quoted) < 2
       THEN [error |-> "TypeError", val |-> EmptyObject]
       ELSE [error |-> "",
             val |-> [url |-> getAttribute(source, "src"),
                      mime |-> parts[1],
                      codecs |-> Split(quoted[2], <<",", " ">>),
                      name |-> getAttribute(source, "data-title"),
                      short_name |-> getAttribute(source, "data-shorttitle"),
                      width |-> OrElse(getAttribute(source, "data-file-width"),
                                       getAttribute(source, "data-width")),
                      height |-> OrElse(getAttribute(source, "data-file-height"),
                                        getAttribute(source, "data-height"))]]

\* elem.getElementsByTagName('source')
SourceElems(elem) == SelectSeq(elem.kids, LAMBDA k : k.tag = "source")

\* The nodes of elem's lineage matched by 'section', '.gallery' and
\* SpokenWikipediaId.
LineageNodes(elem) == {Lineage(elem)[i] : i \in 1..Len(Lineage(elem))}
Sections(elem) == {n \in LineageNodes(elem) : n.tag = "section"}
Galleries(elem) == {n \in LineageNodes(elem) : "gallery" \in n.cls}
SpokenContainers(elem) ==
    {n \in LineageNodes(elem) : getAttribute(n, "id") = Str(SpokenWikipediaId)}

\* showInGallery decided by the type's name, which MathImage shares with Image.
showInGalleryByName(mediaType) == mediaType.name \in {Image.name, Video.name}

\* showInGallery: mediaType === Image || mediaType === Video
showInGallery(mediaType) == mediaType = Image \/ mediaType = Video

Chars_File == <<"F", "i", "l", "e", ":">>

\* `File:${v}` for a string-or-null v
FileTitle(v) == Chars_File \o (IF v.null THEN <<"n", "u", "l", "l">> ELSE v.s)

\* The map callback of getMediaItemInfoFromPage: [error, val], val the record
\* built from elem (fields that are undefined or null are left out).
MapElem(elem) ==
    LET mediaType == getMediaType(elem)
        resource == IF mediaType.selector = {} THEN 0
                    ELSE querySelector(elem, mediaType.selector)
        figCaption == querySelector(elem, {"figcaption"})
        section == closestIndex(elem, Sections(elem))
        sectionId == parseInt(getAttribute(Lineage(elem)[section], "data-mw-section-id"))
        gallery == closestIndex(elem, Galleries(elem))
        galleryId == getAttribute(Lineage(elem)[gallery], "id")
        resourceAttr == getAttribute(elem.kids[resource], "resource")
        resTitle == decodeURIComponent(StripRelative(resourceAttr.s))
        dataMw == JSONParse(getAttribute(elem, "data-mw"))
        sourceInfos == [i \in 1..Len(SourceElems(elem)) |-> SourceInfo(SourceElems(elem)[i])]
        pronTitle == decodeURIComponent(FileTitle(getAttribute(elem, "title")))
        error ==
            IF resource # 0 /\ resourceAttr.null THEN "TypeError"
            ELSE IF resource # 0 /\ ~resTitle.ok THEN "URIError"
            ELSE IF mediaType = Video /\ ~dataMw.ok THEN "SyntaxError"
            ELSE IF mediaType = Video /\ \E i \in 1..Len(sourceInfos) : sourceInfos[i].error # ""
                 THEN "TypeError"
            ELSE IF mediaType = Pronunciation /\ ~pronTitle.ok THEN "URIError"
            ELSE ""
        hasTimes == mediaType = Video /\ ~dataMw.null
        result ==
            Field(mediaType = Pronunciation \/ resource # 0, "title",
                  IF mediaType = Pronunciation THEN pronTitle.s ELSE resTitle.s)
            @@ Field(section # 0, "section_id", sectionId)
            @@ ("type" :> mediaType.name)
            @@ Field(figCaption # 0, "caption",
                     [html |-> elem.kids[figCaption].inner,
                      text |-> elem.kids[figCaption].text])
            @@ Field(hasTimes /\ "starttime" \in DOMAIN dataMw.obj, "start_time",
                     dataMw.obj["starttime"])
            @@ Field(hasTimes /\ "endtime" \in DOMAIN dataMw.obj, "end_time",
                     dataMw.obj["endtime"])
            @@ Field(hasTimes /\ "thumbtime" \in DOMAIN dataMw.obj, "thumb_time",
                     dataMw.obj["thumbtime"])
            @@ Field(mediaType \in {Pronunciation, Audio}, "audio_type",
                     IF mediaType = Pronunciation THEN "pronunciation"
                     ELSE IF closestIndex(elem, SpokenContainers(elem)) # 0 THEN "spoken"
                     ELSE "generic")
            @@ Field(gallery # 0 /\ ~galleryId.null, "gallery_id", galleryId.s)
            @@ Field(mediaType = Video, "sources",
                     [i \in 1..Len(sourceInfos) |-> sourceInfos[i].val])
            @@ ("showInGallery" :> showInGallery(mediaType))
            @@ Field(mediaType = MathImage, "original",
                     [source |-> getAttribute(elem, "src"),
                      mime |-> <<"i", "m", "a", "g", "e", "/", "s", "v", "g">>])
    IN [error |-> error, val |-> IF error = "" THEN result ELSE EmptyObject]

\* The iteratee of _.uniq, elem.title || elem.original.source: [error, key].
UniqKey(rec) ==
    IF "title" \in DOMAIN rec /\ rec["title"] # <<>>
    THEN [error |-> "", key |-> Str(rec["title"])]
    ELSE IF "original" \in DOMAIN rec
         THEN [error |-> "", key |-> rec["original"].source]
         ELSE [error |-> "TypeError", key |-> Null]

\* _.uniq keeping the last record of each key instead of the first.
UniqKeptLast(results) ==
    SelectSeq([i \in 1..Len(results) |-> i],
              LAMBDA i : \A j \in (i + 1)..Len(results) :
                            UniqKey(results[j]).key # UniqKey(results[i]).key)

\* _.uniq called as for a sorted list: only adjacent duplicates are dropped.
UniqKeptAdjacent(results) ==
    SelectSeq([i \in 1..Len(results) |-> i],
              LAMBDA i : i = 1 \/ UniqKey(results[i - 1]).key # UniqKey(results[i]).key)

\* _.uniq(results, iteratee): the positions of results it keeps, a position
\* being kept when no earlier one has its key.
UniqKept(results) ==
    SelectSeq([i \in 1..Len(results) |-> i],
              LAMBDA i : \A j \in 1..(i - 1) : UniqKey(results[j]).key # UniqKey(results[i]).key)

Pick(seq, idx) == [i \in 1..Len(idx) |-> seq[idx[i]]]

FirstError(errors) ==
    LET bad == {i \in 1..Len(errors) : errors[i] \notin {"", "keep", "drop"}}
    IN IF bad = {} THEN "" ELSE errors[CHOOSE i \in bad : \A j \in bad : i <= j]

\* getMediaItemInfoFromPage(html) for a parsed document: [error, list, origin],
\* list the returned records and origin[i] the position in the document of the
\* node list[i] was built from; error names the exception thrown, if any.
getMediaItemInfoFromPage(doc) ==
    LET selected == SelectSeq([i \in 1..Len(doc) |-> i], LAMBDA i : MediaSelectors(doc[i]))
        filtered == [i \in 1..Len(selected) |-> FilterElem(doc[selected[i]])]
        elems == SelectSeq(selected, LAMBDA i : FilterElem(doc[i]) = "keep")
        mapped == [i \in 1..Len(elems) |-> MapElem(doc[elems[i]])]
        results == [i \in 1..Len(elems) |-> mapped[i].val]
        keys == [i \in 1..Len(elems) |-> UniqKey(results[i]).error]
        kept == UniqKept(results)
        error == IF FirstError(filtered) # "" THEN FirstError(filtered)
                 ELSE IF FirstError([i \in 1..Len(elems) |-> mapped[i].error]) # ""
                      THEN FirstError([i \in 1..Len(elems) |-> mapped[i].error])
                 ELSE FirstError(keys)
    IN IF error # "" THEN [error |-> error, list |-> <<>>, origin |-> <<>>]
       ELSE [error |-> "", list |-> Pick(results, kept), origin |-> Pick(elems, kept)]

\* combineResponses dropping original before the merge instead of after it.
CombineItemOriginalFirst(api, mediaItem) ==
    LET stripped == IF "sources" \in DOMAIN mediaItem THEN Delete(mediaItem, "original")
                    ELSE mediaItem
        merged == IF "title" \in DOMAIN stripped /\ stripped["title"] # <<>>
                     /\ stripped["title"] \in DOMAIN api
                  THEN ObjectAssign(stripped, api[stripped["title"]])
                  ELSE stripped
    IN Delete(merged, "title")

\* combineResponses deleting title only where it merged metadata.
CombineItemKeepsTitle(api, mediaItem) ==
    LET found == "title" \in DOMAIN mediaItem /\ mediaItem["title"] # <<>>
                 /\ mediaItem["title"] \in DOMAIN api
        merged == IF found THEN Delete(ObjectAssign(mediaItem, api[mediaItem["title"]]), "title")
                  ELSE mediaItem
    IN IF "sources" \in DOMAIN merged THEN Delete(merged, "original") ELSE merged

\* The callback of combineResponses for one record.
CombineItem(api, mediaItem) ==
    LET merged == IF "title" \in DOMAIN mediaItem /\ mediaItem["title"] # <<>>
                     /\ mediaItem["title"] \in DOMAIN api
                  THEN ObjectAssign(mediaItem, api[mediaItem["title"]])
                  ELSE mediaItem
        untitled == Delete(merged, "title")
    IN IF "sources" \in DOMAIN untitled THEN Delete(untitled, "original") ELSE untitled

combineResponses(api, list) == [i \in 1..Len(list) |-> CombineItem(api, list[i])]

(***************************************************************************)
(* Input documents                                                         *)
(***************************************************************************)
Node(tag, attrs, cls) ==
    [tag |-> tag, attrs |-> attrs, cls |-> cls, inner |-> <<>>, text |-> <<>>,
     kids |-> <<>>, anc |-> <<>>]

Elem(tag, attrs, cls, kids, anc) == [Node(tag, attrs, cls) EXCEPT !.kids = kids, !.anc = anc]

ResA == <<".", "/", "A">>
ResAEscaped == <<"%", "4", "1">>
ResB == <<".", "/", "B">>
ResEmpty == <<".", "/">>
ResBadEscape == <<"B", "%">>
Px47 == <<"4", "7">>
Px48 == <<"4", "8">>
Px100 == <<"1", "0", "0">>
PxAuto == <<"a", "u", "t", "o">>
TypeFull == <<"v", ";", " ", "c", "=", "\"", "a", ",", " ", "b", "\"">>
TypeNoCodecs == <<"v">>

Img(res, w, h) ==
    Node("img", ("resource" :> res) @@ ("width" :> w) @@ ("height" :> h), {})
Source(attrs) == Node("source", attrs, {})
FigCaption == [Node("figcaption", EmptyObject, {}) EXCEPT !.inner = <<"<", "b", ">", "c">>,
                                                           !.text = <<"c">>]
Section(id) == Node("section", "data-mw-section-id" :> id, {})
Gallery == Node("ul", "id" :> <<"g">>, {"gallery"})
Spoken == Node("div", "id" :> SpokenWikipediaId, {})
Hidden == Node("div", EmptyObject, {"metadata"})
Div == Node("div", EmptyObject, {})

TypeofImage == "typeof" :> Chars_mwImage
TypeofImageThumb == "typeof" :> (Chars_mwImage \o <<"/", "T">>)
TypeofVideo == "typeof" :> Chars_mwVideo
TypeofAudio == "typeof" :> Chars_mwAudio
TypeofOther == "typeof" :> <<"m", "w", ":", "X">>
RelMediaLink == "rel" :> Chars_mwMediaLink

ImageShapes ==
    { Elem("figure", TypeofImage, {}, <<Img(ResA, Px100, Px100)>>, <<Section(<<"1">>)>>),
      Elem("figure", TypeofImageThumb, {}, <<FigCaption, Img(ResAEscaped, Px48, Px48)>>,
           <<Gallery, Section(<<"2">>)>>),
      Elem("figure", TypeofImage, {}, <<Img(ResB, Px48, Px100)>>, <<>>),
      Elem("figure", TypeofImage, {}, <<Img(ResB, Px47, Px100)>>, <<>>),
      Elem("figure", TypeofImage, {}, <<Img(ResA, Px100, Px47)>>, <<>>),
      Elem("figure", TypeofImage, {},
           <<Node("img", ("resource" :> ResB) @@ ("height" :> Px100), {})>>, <<>>),
      Elem("figure", TypeofImage, {}, <<Img(ResB, PxAuto, Px100)>>, <<>>),
      Elem("figure", TypeofImage, {}, <<>>, <<>>),
      Elem("figure", TypeofImage, {"noviewer"}, <<Img(ResB, Px100, Px100)>>, <<>>),
      Elem("figure", TypeofImage, {}, <<Img(ResA, Px100, Px100)>>, <<Div, Hidden>>),
      Elem("span", TypeofImage, {MATHOID_IMG_CLASS}, <<Img(ResB, Px47, Px47)>>, <<>>),
      Elem("figure", TypeofImage, {}, <<Img(ResEmpty, Px100, Px100)>>, <<>>),
      Elem("figure", TypeofImage, {}, <<Img(ResBadEscape, Px100, Px100)>>, <<>>),
      Elem("figure", TypeofImage, {},
           <<Node("img", ("width" :> Px100) @@ ("height" :> Px100), {})>>, <<>>) }

VideoShapes ==
    { Elem("figure", TypeofVideo @@ ("data-mw" :> DataMwTimes), {},
           <<Node("video", "resource" :> ResA, {}),
             Source(("type" :> TypeFull) @@ ("src" :> <<"u">>) @@ ("data-width" :> Px100)),
             Source(("type" :> TypeFull) @@ ("data-file-width" :> Px48)
                    @@ ("data-width" :> Px100))>>, <<>>),
      Elem("figure", TypeofVideo @@ ("data-mw" :> DataMwBroken), {},
           <<Node("video", "resource" :> ResB, {})>>, <<>>),
      Elem("figure", TypeofVideo, {}, <<Node("video", "resource" :> ResB, {})>>, <<>>),
      Elem("figure", TypeofVideo @@ ("data-mw" :> DataMwEmpty), {},
           <<Node("video", "resource" :> ResB, {}), Source("src" :> <<"u">>)>>, <<>>),
      Elem("figure", TypeofVideo, {},
           <<Node("video", "resource" :> ResB, {}), Source("type" :> TypeNoCodecs)>>, <<>>),
      Elem("figure", TypeofVideo, {}, <<>>, <<>>) }

OtherShapes ==
    { Elem("figure", TypeofAudio, {}, <<Node("audio", "resource" :> ResB, {})>>, <<>>),
      Elem("figure", TypeofAudio, {}, <<Node("video", "resource" :> ResA, {})>>,
           <<Div, Spoken>>),
      Elem("a", RelMediaLink @@ ("title" :> <<"A">>), {}, <<>>, <<>>),
      Elem("a", RelMediaLink, {}, <<>>, <<>>),
      Elem("img", "src" :> <<"A">>, {MATHOID_IMG_CLASS}, <<>>, <<>>),
      Elem("img", "src" :> <<"m">>, {MATHOID_IMG_CLASS, "noviewer"}, <<>>, <<>>),
      Elem("img", TypeofOther, {MATHOID_IMG_CLASS}, <<>>, <<>>),
      Elem("p", EmptyObject, {}, <<Img(ResA, Px100, Px100)>>, <<>>),
      Elem("p", "typeof" :> <<"m", "w", ":", "I", "m", "a", "g">>, {}, <<>>, <<>>) }

Shapes == ImageShapes \cup VideoShapes \cup OtherShapes

\* The parsed documents: the nodes of interest in document order.
Docs == UNION {[1..n -> Shapes] : n \in 0..MaxElems}

(***************************************************************************)
(* Metadata maps and caller-built record lists                             *)
(***************************************************************************)
MetaDescription == "description" :> <<"d">>
MetaFull ==
    ("title" :> <<"X">>) @@ ("description" :> <<"e">>)
    @@ ("original" :> [source |-> Str(<<"o">>), mime |-> <<"j">>])
    @@ ("caption" :> [html |-> <<"h">>, text |-> <<"t">>])
MetaObjects == {MetaDescription, MetaFull}

MetaTitles == {<<"A">>, <<"B">>}

ApiResponses == UNION {[T -> MetaObjects] : T \in SUBSET MetaTitles}

\* Records handed to combineResponses by a caller that built them itself.
DirectRecords ==
    { ("title" :> <<"C">>) @@ ("type" :> "video") @@ ("sources" :> <<>>)
        @@ ("original" :> [source |-> Str(<<"s">>), mime |-> <<"k">>])
        @@ ("showInGallery" :> TRUE),
      ("title" :> <<"A">>) @@ ("type" :> "video") @@ ("sources" :> <<>>)
        @@ ("showInGallery" :> TRUE),
      ("type" :> "image") @@ ("showInGallery" :> FALSE)
        @@ ("original" :> [source |-> Str(<<"m">>), mime |-> <<"k">>]) }

DirectLists == UNION {[1..n -> DirectRecords] : n \in 1..MaxElems}

(***************************************************************************)
(* The state machine                                                       *)
(***************************************************************************)
NoReturn == [error |-> "", list |-> <<>>, origin |-> <<>>]

\* getMediaType has not been called on its own.
ClassifyIdle == subject = Div /\ variant = Undefined

\* The module lib/mwapi.js as loaded: an empty cache, nothing requested.
ApiInit ==
    /\ siteInfoCache = EmptyObject
    /\ promises = <<>>
    /\ requests = <<>>
    /\ returned = <<>>
    /\ queries = <<>>

\* No document, no call of the extraction or the merge.
MediaIdle ==
    /\ html = <<>>
    /\ ret = NoReturn
    /\ given = <<>>
    /\ pageMediaList = <<>>
    /\ apiResponse = EmptyObject
    /\ combined = <<>>

Init ==
    /\ html \in Docs
    /\ pc = "start"
    /\ ret = NoReturn
    /\ given = <<>>
    /\ pageMediaList = <<>>
    /\ apiResponse = EmptyObject
    /\ combined = <<>>
    /\ ClassifyIdle
    /\ ApiInit

\* The route calls getMediaItemInfoFromPage on the page's HTML.
Extract ==
    /\ pc = "start"
    /\ ret' = getMediaItemInfoFromPage(html)
    /\ pc' = IF ret'.error = "" THEN "extracted" ELSE "threw"
    /\ pageMediaList' = ret'.list
    /\ given' = ret'.list
    /\ UNCHANGED <<html, apiResponse, combined, classifyVars, apiVars>>

\* A caller hands combineResponses a list it built itself.
Supply ==
    /\ pc = "start"
    /\ html = <<>>
    /\ \E list \in DirectLists : pageMediaList' = list
    /\ given' = pageMediaList'
    /\ pc' = "supplied"
    /\ UNCHANGED <<html, ret, apiResponse, combined, classifyVars, apiVars>>

\* combineResponses(apiResponse, pageMediaList); it changes the records of
\* pageMediaList in place and returns them in a new array.
Combine ==
    /\ pc \in {"extracted", "supplied"}
    /\ \E api \in ApiResponses :
          /\ apiResponse' = api
          /\ combined' = combineResponses(api, pageMediaList)
    /\ pageMediaList' = combined'
    /\ pc' = IF pc = "extracted" THEN "combined" ELSE "combinedSupplied"
    /\ UNCHANGED <<html, ret, given, classifyVars, apiVars>>

Next == Extract \/ Supply \/ Combine

Spec == Init /\ [][Next]_vars

(***************************************************************************)
(* getMediaType on its own                                                 *)
(***************************************************************************)
TypeofValues ==
    { <<>>, Chars_mwImage, Chars_mwImage \o <<"/", "T">>, Chars_mwVideo,
      Chars_mwAudio \o <<"/", "T">>, <<"m", "w", ":", "I", "m", "a", "g">>,
      <<"m", "w", ":", "X">>, <<"x">> \o Chars_mwImage }

RelValues == {Chars_mwMediaLink, Chars_mwMediaLink \o <<"x">>}

ClassValues == SUBSET {MATHOID_IMG_CLASS, "noviewer"}

\* The attribute maps with typeof and rel each absent or one of the values.
ClassifyAttrs ==
    {EmptyObject}
    \cup {"typeof" :> t : t \in TypeofValues}
    \cup {"rel" :> r : r \in RelValues}
    \cup {("typeof" :> t) @@ ("rel" :> r) : t \in TypeofValues, r \in RelValues}

ClassifyInputs == {Node("a", a, c) : a \in ClassifyAttrs, c \in ClassValues}

InitClassify ==
    /\ pc = "classify"
    /\ subject \in ClassifyInputs
    /\ variant = Undefined
    /\ MediaIdle
    /\ ApiInit

\* getMediaType(subject)
Classify ==
    /\ pc = "classify"
    /\ variant' = getMediaType(subject)
    /\ pc' = "classified"
    /\ UNCHANGED <<subject, mediaVars, apiVars>>

NextClassify == Classify

SpecClassify == InitClassify /\ [][NextClassify]_vars

(***************************************************************************)
(* lib/mwapi.js: getSiteInfo and queryForMetadata.  A siteinfo promise is  *)
(* [domain, request, state]: request is the state of the api.mwApiGet      *)
(* promise (pending, or how it settled), state the state of the promise    *)
(* its .then returns, which is the one cached.  A query is one call of     *)
(* queryForMetadata: [domain, siteinfo, metadata, state, error, built],    *)
(* siteinfo the promise getSiteInfo returned, metadata the state of the    *)
(* metadata request (pending, failed, or the body it resolved with), state *)
(* and error those of the joined promise, built whether responseBuilder    *)
(* was invoked.                                                            *)
(***************************************************************************)
\* Largest number of getSiteInfo calls, those of queryForMetadata included.
MaxCalls == 3

\* Largest number of queryForMetadata calls.
MaxQueries == 1

Domains == {"en.wikipedia.org", "de.wikipedia.org"}

\* How the siteinfo request settles: a response the .then callback can read,
\* one it cannot (no query.general), or a rejection.
SiteInfoOutcomes == {"ok", "malformed", "failed"}

\* The bodies a metadata request resolves with: a page, a page marked missing
\* or invalid, an empty pages list, no query at all.
MetadataBodies == {"page", "missing", "invalid", "nopages", "noquery"}

\* A cache miss that also takes an entry whose promise has not settled.
CacheMissWhilePending(domain) ==
    \/ domain \notin DOMAIN siteInfoCache
    \/ promises[siteInfoCache[domain]].state = "pending"

\* A cache miss that also takes an entry whose promise was rejected.
CacheMissOrRejected(domain) ==
    \/ domain \notin DOMAIN siteInfoCache
    \/ promises[siteInfoCache[domain]].state = "rejected"

\* !siteInfoCache[rp.domain]
CacheMiss(domain) == domain \notin DOMAIN siteInfoCache

\* What a call of getSiteInfo finds for the domain.
Found(domain) ==
    IF domain \notin DOMAIN siteInfoCache THEN "nothing"
    ELSE promises[siteInfoCache[domain]].state

\* mwapi.getSiteInfo(app, req) with req.params.domain = domain: on a miss it
\* issues the siteinfo request and stores the promise of its .then; it
\* returns the stored promise.
getSiteInfo(domain) ==
    /\ promises' = IF CacheMiss(domain)
                   THEN Append(promises, [domain |-> domain, request |-> "pending",
                                          state |-> "pending"])
                   ELSE promises
    /\ requests' = IF CacheMiss(domain) THEN Append(requests, domain) ELSE requests
    /\ siteInfoCache' = IF CacheMiss(domain)
                        THEN (domain :> Len(promises')) @@ siteInfoCache
                        ELSE siteInfoCache
    /\ returned' = Append(returned, [domain |-> domain, promise |-> siteInfoCache'[domain],
                                     found |-> Found(domain)])

InitApi ==
    /\ pc = "api"
    /\ MediaIdle
    /\ ClassifyIdle
    /\ ApiInit

\* A route calls getSiteInfo.
CallGetSiteInfo ==
    /\ Len(returned) < MaxCalls
    /\ \E domain \in Domains : getSiteInfo(domain)
    /\ UNCHANGED <<pc, queries, mediaVars, classifyVars>>

\* The siteinfo request settles.
SiteInfoResponse ==
    /\ \E i \in 1..Len(promises), outcome \in SiteInfoOutcomes :
          /\ promises[i].request = "pending"
          /\ promises' = [promises EXCEPT ![i].request = outcome]
    /\ UNCHANGED <<pc, siteInfoCache, requests, returned, queries, mediaVars, classifyVars>>

\* The .then callback of getSiteInfo runs (or the rejection passes through):
\* the cached promise settles.
SiteInfoThen ==
    /\ \E i \in 1..Len(promises) :
          /\ promises[i].request # "pending"
          /\ promises[i].state = "pending"
          /\ promises' = [promises EXCEPT
                            ![i].state = IF promises[i].request = "ok" THEN "fulfilled"
                                         ELSE "rejected"]
    /\ UNCHANGED <<pc, siteInfoCache, requests, returned, queries, mediaVars, classifyVars>>

\* mwapi.queryForMetadata(app, req, query, responseBuilder): getSiteInfo, then
\* the metadata request, joined.
QueryForMetadata ==
    /\ Len(returned) < MaxCalls
    /\ Len(queries) < MaxQueries
    /\ \E domain \in Domains :
          /\ getSiteInfo(domain)
          /\ queries' = Append(queries, [domain |-> domain,
                                         siteinfo |-> siteInfoCache'[domain],
                                         metadata |-> "pending", state |-> "pending",
                                         error |-> "", built |-> FALSE])
    /\ UNCHANGED <<pc, mediaVars, classifyVars>>

\* The metadata request settles.
MetadataResponse ==
    /\ \E q \in 1..Len(queries), outcome \in MetadataBodies \cup {"failed"} :
          /\ queries[q].metadata = "pending"
          /\ queries' = [queries EXCEPT ![q].metadata = outcome]
    /\ UNCHANGED <<pc, siteInfoCache, promises, requests, returned, mediaVars, classifyVars>>

\* The test on the first page of a metadata body treating an invalid page as
\* present.
PagePresentIgnoringInvalid(body) == body \in {"page", "invalid"}

\* !(!page || page.missing || page.invalid) for the first page of the body
PagePresent(body) == body = "page"

\* Both promises are fulfilled: the callback of BBPromise.join runs, and throws
\* the HTTPError or calls responseBuilder.
JoinCallback ==
    /\ \E q \in 1..Len(queries) :
          /\ queries[q].state = "pending"
          /\ promises[queries[q].siteinfo].state = "fulfilled"
          /\ queries[q].metadata \in MetadataBodies
          /\ queries' = [queries EXCEPT ![q] =
                IF PagePresent(queries[q].metadata)
                THEN [@ EXCEPT !.state = "fulfilled", !.built = TRUE]
                ELSE [@ EXCEPT !.state = "rejected", !.error = "missingtitle"]]
    /\ UNCHANGED <<pc, siteInfoCache, promises, requests, returned, mediaVars, classifyVars>>

\* One of the joined promises is rejected: BBPromise.join rejects with its
\* reason, and the callback never runs.
JoinReject ==
    /\ \E q \in 1..Len(queries), reason \in {"siteinfo", "metadata"} :
          /\ queries[q].state = "pending"
          /\ reason = "siteinfo" => promises[queries[q].siteinfo].state = "rejected"
          /\ reason = "metadata" => queries[q].metadata = "failed"
          /\ queries' = [queries EXCEPT ![q].state = "rejected", ![q].error = reason]
    /\ UNCHANGED <<pc, siteInfoCache, promises, requests, returned, mediaVars, classifyVars>>

NextApi ==
    \/ CallGetSiteInfo
    \/ SiteInfoResponse
    \/ SiteInfoThen
    \/ QueryForMetadata
    \/ MetadataResponse
    \/ JoinCallback
    \/ JoinReject

SpecApi == InitApi /\ [][NextApi]_vars

(***************************************************************************)
(* Properties                                                              *)
(***************************************************************************)
\* getMediaItemInfoFromPage has returned a list.
Returned == pc \in {"extracted", "combined"}

\* combineResponses has returned.
Merged == pc \in {"combined", "combinedSupplied"}

Positions == 1..Len(html)

\* The node at p is matched by the selectors and passes the filter.
Survives(p) == MediaSelectors(html[p]) /\ FilterElem(html[p]) = "keep"

\* The deduplication key of a record: its title if it has one, else its
\* original.source.
RecKey(rec) ==
    IF "title" \in DOMAIN rec THEN Str(rec["title"])
    ELSE IF "original" \in DOMAIN rec THEN rec["original"].source
    ELSE Null

ElemRecord(p) == MapElem(html[p]).val
ElemKey(p) == RecKey(ElemRecord(p))

\* The first surviving node whose record has key k, 0 if there is none.
FirstYielding(k) ==
    LET S == {p \in Positions : Survives(p) /\ ElemKey(p) = k}
    IN IF S = {} THEN 0 ELSE CHOOSE p \in S : \A q \in S : p <= q

Range(seq) == {seq[i] : i \in 1..Len(seq)}

\* C1: the returned records are in the document order of the first surviving
\* node of each key: if record i precedes record j, the first surviving node
\* yielding i's key precedes the first surviving node yielding j's key.
C1_DocumentOrder ==
    Returned =>
        \A i, j \in 1..Len(ret.list) :
            i < j => /\ FirstYielding(RecKey(ret.list[i])) # 0
                     /\ FirstYielding(RecKey(ret.list[i])) < FirstYielding(RecKey(ret.list[j]))

\* Two records are returned and a surviving duplicate standing before the
\* node of the last record was dropped.
C1_Witness ==
    /\ Returned
    /\ Len(ret.list) >= 2
    /\ \E p \in Positions :
          Survives(p) /\ p \notin Range(ret.origin) /\ p < ret.origin[Len(ret.origin)]

\* C2: no two returned records share a key (title, else original.source); of
\* the surviving nodes yielding one key exactly the record built from the
\* first is returned, unchanged, and every surviving node's key is returned.
C2_Deduplicated ==
    Returned =>
        /\ \A i, j \in 1..Len(ret.list) :
              i # j => RecKey(ret.list[i]) # RecKey(ret.list[j])
        /\ \A i \in 1..Len(ret.list) :
              LET first == FirstYielding(RecKey(ret.list[i]))
              IN first # 0 /\ ret.origin[i] = first /\ ret.list[i] = ElemRecord(first)
        /\ \A p \in Positions :
              Survives(p) => \E i \in 1..Len(ret.list) : RecKey(ret.list[i]) = ElemKey(p)

\* A surviving node was dropped whose record differs from the one kept for
\* its key.
C2_Witness ==
    /\ Returned
    /\ \E p \in Positions :
          /\ Survives(p)
          /\ p \notin Range(ret.origin)
          /\ ElemRecord(p) # ElemRecord(FirstYielding(ElemKey(p)))
          /\ ElemRecord(FirstYielding(ElemKey(p))) \in Range(ret.list)

\* C3: no record returned by combineResponses has a title, and none that has
\* sources has an original.
C3_NoTitleNoVideoOriginal ==
    Merged =>
        \A i \in 1..Len(combined) :
            /\ "title" \notin DOMAIN combined[i]
            /\ "sources" \in DOMAIN combined[i] => "original" \notin DOMAIN combined[i]

\* A record with sources came in with an original of its own, and a record
\* with sources had an original supplied by the metadata of its title.
C3_Witness ==
    /\ Merged
    /\ \E i \in 1..Len(given) :
          "sources" \in DOMAIN given[i] /\ "original" \in DOMAIN given[i]
    /\ \E i \in 1..Len(given) :
          /\ "sources" \in DOMAIN given[i]
          /\ "title" \in DOMAIN given[i]
          /\ given[i]["title"] \in DOMAIN apiResponse
          /\ "original" \in DOMAIN apiResponse[given[i]["title"]]

\* The attribute value is a decimal numeral.
IsNumeral(v) == ~v.null /\ v.s # <<>> /\ \A i \in 1..Len(v.s) : IsDigit(v.s[i])

DeclaredBelow(v, n) == IsNumeral(v) /\ DecimalValue(v.s) < n
DeclaredAtLeast(v, n) == IsNumeral(v) /\ DecimalValue(v.s) >= n

\* The node at p is classified Image and has an img descendant.
IsImageWithImg(p) ==
    /\ MediaSelectors(html[p])
    /\ getMediaType(html[p]) = Image
    /\ querySelector(html[p], Image.selector) # 0

ImgOf(p) == html[p].kids[querySelector(html[p], Image.selector)]

\* The node at p has a record in the output: its own, or the one of an earlier
\* node with its key.
Represented(p) ==
    \E i \in 1..Len(ret.list) :
        \/ ret.origin[i] = p
        \/ ret.origin[i] < p /\ RecKey(ret.list[i]) = ElemKey(p)

\* C4: an Image node whose img declares a width or a height below 48 yields no
\* record unless it is a Mathoid image, and an Image node (not disallowed)
\* whose img declares both at least 48 is not filtered out.
C4_SizeFilter ==
    Returned =>
        \A p \in Positions :
            IsImageWithImg(p) =>
                /\ (/\ ~isMathoidImage(html[p])
                    /\ \/ DeclaredBelow(getAttribute(ImgOf(p), "width"), MIN_IMAGE_SIZE)
                       \/ DeclaredBelow(getAttribute(ImgOf(p), "height"), MIN_IMAGE_SIZE))
                   => p \notin Range(ret.origin)
                /\ (/\ DeclaredAtLeast(getAttribute(ImgOf(p), "width"), MIN_IMAGE_SIZE)
                    /\ DeclaredAtLeast(getAttribute(ImgOf(p), "height"), MIN_IMAGE_SIZE)
                    /\ ~isDisallowed(html[p]))
                   => Represented(p)

\* A small image was dropped, a small Mathoid image and an image of at least
\* 48 by 48 were returned.
C4_Witness ==
    /\ Returned
    /\ \E p \in Positions :
          /\ IsImageWithImg(p) /\ ~isMathoidImage(html[p])
          /\ DeclaredBelow(getAttribute(ImgOf(p), "width"), MIN_IMAGE_SIZE)
          /\ p \notin Range(ret.origin)
    /\ \E p \in Positions :
          /\ IsImageWithImg(p) /\ isMathoidImage(html[p])
          /\ DeclaredBelow(getAttribute(ImgOf(p), "width"), MIN_IMAGE_SIZE)
          /\ p \in Range(ret.origin)
    /\ \E p \in Positions :
          /\ IsImageWithImg(p)
          /\ DeclaredAtLeast(getAttribute(ImgOf(p), "width"), MIN_IMAGE_SIZE)
          /\ DeclaredAtLeast(getAttribute(ImgOf(p), "height"), MIN_IMAGE_SIZE)
          /\ p \in Range(ret.origin)

\* The attribute is missing or is no decimal numeral.
Undeclared(v) == ~IsNumeral(v)

\* C5: an Image node (not disallowed) whose img has a missing or non-numeric
\* width or height, and no dimension declared below 48, is not excluded by
\* the size filter.
C5_MissingDimensionKept ==
    Returned =>
        \A p \in Positions :
            (/\ IsImageWithImg(p)
             /\ ~isDisallowed(html[p])
             /\ \/ Undeclared(getAttribute(ImgOf(p), "width"))
                \/ Undeclared(getAttribute(ImgOf(p), "height"))
             /\ ~DeclaredBelow(getAttribute(ImgOf(p), "width"), MIN_IMAGE_SIZE)
             /\ ~DeclaredBelow(getAttribute(ImgOf(p), "height"), MIN_IMAGE_SIZE))
            => Represented(p)

\* getMediaItemInfoFromPage has been called, and returned or threw.
Called == pc \in {"extracted", "combined", "threw"}

\* The node at p, alone in a document, is extracted without an error.
ExtractsAlone(p) == getMediaItemInfoFromPage(<<html[p]>>).error = ""

\* The node at p is a Video whose data-mw is not valid JSON.
BrokenVideo(p) ==
    /\ MediaSelectors(html[p])
    /\ getMediaType(html[p]) = Video
    /\ ~JSONParse(getAttribute(html[p], "data-mw")).ok

\* C6: when a Video node's data-mw is not valid JSON (and the other nodes
\* extract without error), no error is raised, the records of the other
\* surviving nodes are returned, and the record of the Video node has no
\* start_time, end_time or thumb_time.
C6_BrokenDataMwTolerated ==
    Called =>
        \A p \in Positions :
            (BrokenVideo(p) /\ \A q \in Positions \ {p} : ExtractsAlone(q))
            => /\ ret.error = ""
               /\ \A q \in Positions \ {p} : Survives(q) => Represented(q)
               /\ \A i \in 1..Len(ret.list) :
                     ret.origin[i] = p =>
                        DOMAIN ret.list[i] \cap {"start_time", "end_time", "thumb_time"} = {}

\* The node at p is classified with a resource selector and has no descendant
\* matching it.
MissingResource(p) ==
    /\ MediaSelectors(html[p])
    /\ getMediaType(html[p]).selector # {}
    /\ querySelector(html[p], getMediaType(html[p]).selector) = 0

\* C7: a node classified Image, Video or Audio without a descendant matching
\* its resource selector is left out of the output, no error is raised, and
\* the records of the other nodes (which extract without error) are returned.
C7_MissingResourceExcluded ==
    Called =>
        \A p \in Positions :
            (MissingResource(p) /\ \A q \in Positions \ {p} : ExtractsAlone(q))
            => /\ ret.error = ""
               /\ p \notin Range(ret.origin)
               /\ \A q \in Positions \ {p} : Survives(q) => Represented(q)

\* C8: for every parsed document getMediaItemInfoFromPage returns a list
\* instead of throwing.
C8_NeverThrows == Called => ret.error = ""

\* obj without the fields ks
Without(obj, ks) == [x \in DOMAIN obj \ ks |-> obj[x]]

\* The fields combineResponses removes from a record with the fields F.
Stripped(F) == {"title"} \cup (IF "sources" \in F THEN {"original"} ELSE {})

\* C9: a record whose title has no entry in the metadata map is returned with
\* exactly its own fields other than title (and other than original when it
\* has sources).
C9_MissingEntry ==
    Merged =>
        /\ Len(combined) = Len(given)
        /\ \A i \in 1..Len(given) :
              ("title" \in DOMAIN given[i] /\ given[i]["title"] \notin DOMAIN apiResponse)
              => combined[i] = Without(given[i], Stripped(DOMAIN given[i]))

\* A record with a title was merged against a map that has entries, none of
\* them for that title.
C9_Witness ==
    /\ Merged
    /\ DOMAIN apiResponse # {}
    /\ \E i \in 1..Len(given) :
          /\ "title" \in DOMAIN given[i]
          /\ given[i]["title"] \notin DOMAIN apiResponse
          /\ combined[i] # given[i]

\* C10 as stated: a record whose title has an entry in the map is returned
\* with every field of the entry other than title, at the entry's value, and
\* with every other field of its own unchanged; a record without a title gets
\* no metadata field; the list keeps its length and order.
C10_MergeAllFields ==
    Merged =>
        /\ Len(combined) = Len(given)
        /\ \A i \in 1..Len(given) :
              LET in == given[i]
                  out == combined[i]
              IN IF "title" \in DOMAIN in /\ in["title"] \in DOMAIN apiResponse
                 THEN LET m == apiResponse[in["title"]]
                      IN /\ DOMAIN out = (DOMAIN in \cup DOMAIN m) \ {"title"}
                         /\ \A k \in DOMAIN out :
                               out[k] = IF k \in DOMAIN m THEN m[k] ELSE in[k]
                 ELSE "title" \notin DOMAIN in =>
                         DOMAIN out \subseteq DOMAIN in /\ \A k \in DOMAIN out : out[k] = in[k]

\* C10 (amended): as above, except that original is not among the returned
\* fields when the merged record has sources.
C10_MergeExceptVideoOriginal ==
    Merged =>
        /\ Len(combined) = Len(given)
        /\ \A i \in 1..Len(given) :
              LET in == given[i]
                  out == combined[i]
              IN IF "title" \in DOMAIN in /\ in["title"] \in DOMAIN apiResponse
                 THEN LET m == apiResponse[in["title"]]
                      IN /\ DOMAIN out = (DOMAIN in \cup DOMAIN m)
                                            \ Stripped(DOMAIN in \cup DOMAIN m)
                         /\ \A k \in DOMAIN out :
                               out[k] = IF k \in DOMAIN m THEN m[k] ELSE in[k]
                 ELSE "title" \notin DOMAIN in =>
                         DOMAIN out \subseteq DOMAIN in /\ \A k \in DOMAIN out : out[k] = in[k]

\* An extracted record was merged with an entry that replaces one of its
\* fields by another value, and a record without a title went through.
C10_Witness ==
    /\ pc = "combined"
    /\ \E i \in 1..Len(given) :
          /\ "title" \in DOMAIN given[i]
          /\ given[i]["title"] \in DOMAIN apiResponse
          /\ \E k \in DOMAIN given[i] \cap DOMAIN apiResponse[given[i]["title"]] :
                /\ k \in DOMAIN combined[i]
                /\ given[i][k] # apiResponse[given[i]["title"]][k]
    /\ \E i \in 1..Len(given) : "title" \notin DOMAIN given[i]

\* The first 8 characters of s are those of prefix (of length 8).
FirstEightAre(s, prefix) == Len(s) >= 8 /\ \A i \in 1..8 : s[i] = prefix[i]

\* The variant C11 gives a node with the typeof t ("" when absent), by rel
\* and by Mathoid class.
C11_Variant(t, relIsMediaLink, mathoid) ==
    IF t # <<>>
    THEN IF FirstEightAre(t, Chars_mwImage) THEN Image
         ELSE IF FirstEightAre(t, Chars_mwVideo) THEN Video
         ELSE IF FirstEightAre(t, Chars_mwAudio) THEN Audio
         ELSE Unknown
    ELSE IF relIsMediaLink THEN Pronunciation
    ELSE IF mathoid THEN MathImage
    ELSE Undefined

TypeofOf(node) == IF "typeof" \in DOMAIN node.attrs THEN node.attrs["typeof"] ELSE <<>>

RelIsMediaLink(node) ==
    "rel" \in DOMAIN node.attrs /\ node.attrs["rel"] = Chars_mwMediaLink

\* C11: getMediaType classifies by strict priority: a non-empty typeof decides
\* alone (Image, Video, Audio by its first 8 characters, else Unknown); with
\* no typeof, rel = mw:MediaLink gives Pronunciation; otherwise the Mathoid
\* class gives MathImage; otherwise there is no match.
C11_Priority ==
    pc = "classified" =>
        variant = C11_Variant(TypeofOf(subject), RelIsMediaLink(subject),
                              MATHOID_IMG_CLASS \in subject.cls)

\* A node with another typeof, rel = mw:MediaLink and the Mathoid class was
\* classified Unknown.
C11_Witness ==
    /\ pc = "classified"
    /\ TypeofOf(subject) = <<"m", "w", ":", "X">>
    /\ RelIsMediaLink(subject)
    /\ MATHOID_IMG_CLASS \in subject.cls
    /\ variant = Unknown

\* C12: no returned record is built from a node for which isDisallowed holds
\* (the node or one of its ancestors has a blacklisted class), Mathoid images
\* included.
C12_NoDisallowedRecord ==
    Returned => \A i \in 1..Len(ret.origin) : ~isDisallowed(html[ret.origin[i]])

\* The variant of the node at p by the priority rule of C11.
VariantAt(p) ==
    C11_Variant(TypeofOf(html[p]), RelIsMediaLink(html[p]),
                MATHOID_IMG_CLASS \in html[p].cls)

\* C14: every returned record has showInGallery true exactly when its node is
\* classified Image or Video; records of Audio, Pronunciation, MathImage and
\* Unknown nodes have it false.
C14_ShowInGallery ==
    Returned =>
        \A i \in 1..Len(ret.list) :
            /\ "showInGallery" \in DOMAIN ret.list[i]
            /\ ret.list[i]["showInGallery"] = (VariantAt(ret.origin[i]) \in {Image, Video})

\* An Image or Video record with showInGallery true was returned together
\* with a MathImage record, of type image, with showInGallery false.
C14_Witness ==
    /\ Returned
    /\ \E i \in 1..Len(ret.list) :
          VariantAt(ret.origin[i]) \in {Image, Video} /\ ret.list[i]["showInGallery"]
    /\ \E i \in 1..Len(ret.list) :
          /\ VariantAt(ret.origin[i]) = MathImage
          /\ ret.list[i]["type"] = Image.name
          /\ ~ret.list[i]["showInGallery"]
    /\ \E i \in 1..Len(ret.list) :
          VariantAt(ret.origin[i]) \in {Audio, Pronunciation} /\ ~ret.list[i]["showInGallery"]


(***************************************************************************)
(* getSiteInfo and queryForMetadata                                        *)
(***************************************************************************)
\* The siteinfo requests issued for a domain.
RequestsFor(domain) == {i \in 1..Len(requests) : requests[i] = domain}

\* The calls of getSiteInfo made for a domain, in order.
CallsFor(domain) == {i \in 1..Len(returned) : returned[i].domain = domain}

\* C15: getSiteInfo issues at most one siteinfo request per domain for the
\* life of the process: every call for a domain returns the promise the first
\* call for that domain returned, whether that promise was pending or settled
\* at the call, only the first call issues a request, and calls for different
\* domains return different promises.
C15_OneRequestPerDomain ==
    /\ \A domain \in Domains : Cardinality(RequestsFor(domain)) <= 1
    /\ \A i, j \in 1..Len(returned) :
          (returned[i].domain = returned[j].domain)
              <=> (returned[i].promise = returned[j].promise)
    /\ \A i \in 1..Len(returned) :
          /\ promises[returned[i].promise].domain = returned[i].domain
          /\ (returned[i].found = "nothing")
                <=> (\A j \in 1..(i - 1) : returned[j].domain # returned[i].domain)
    /\ Len(requests) = Cardinality({returned[i].domain : i \in 1..Len(returned)})

\* One domain was asked for three times: first, then while its request was
\* pending, then after it settled; one request was issued.
C15_Witness ==
    /\ pc = "api"
    /\ \E i, j, k \in 1..Len(returned) :
          /\ returned[i].domain = returned[j].domain
          /\ returned[i].found = "pending"
          /\ returned[j].found \in {"fulfilled", "rejected"}
          /\ returned[k].domain = returned[i].domain
          /\ returned[k].found = "nothing"
          /\ returned[i].promise = returned[k].promise
          /\ returned[j].promise = returned[k].promise
          /\ Cardinality(RequestsFor(returned[i].domain)) = 1

\* C16: a cache entry is never removed or replaced, and a promise that has
\* settled stays as it settled; once the promise cached for a domain is
\* rejected, no further request is issued for the domain and every later call
\* for it returns that rejected promise.
C16_NeverInvalidated ==
    [][/\ \A domain \in DOMAIN siteInfoCache :
             /\ domain \in DOMAIN siteInfoCache'
             /\ siteInfoCache'[domain] = siteInfoCache[domain]
             /\ promises[siteInfoCache[domain]].state # "pending"
                   => promises'[siteInfoCache[domain]] = promises[siteInfoCache[domain]]
             /\ promises[siteInfoCache[domain]].state = "rejected"
                   => /\ RequestsFor(domain)' = RequestsFor(domain)
                      /\ \A i \in CallsFor(domain)' \ CallsFor(domain) :
                            /\ returned'[i].promise = siteInfoCache[domain]
                            /\ returned'[i].found = "rejected"
       /\ Len(requests') >= Len(requests)
       /\ \A i \in 1..Len(returned) : i <= Len(returned') /\ returned'[i] = returned[i]]_vars

\* A call made after the request of its domain failed got the rejected promise
\* of the first call, and no second request was issued.
C16_Witness ==
    /\ pc = "api"
    /\ \E i, j \in 1..Len(returned) :
          /\ i < j
          /\ returned[i].domain = returned[j].domain
          /\ returned[i].found = "nothing"
          /\ returned[j].found = "rejected"
          /\ returned[j].promise = returned[i].promise
          /\ promises[returned[j].promise].state = "rejected"
          /\ Cardinality(RequestsFor(returned[j].domain)) = 1

\* The joined promise of a query has settled.
Settled(query) == query.state # "pending"

\* The metadata request of a query resolved and its first page is absent,
\* missing or invalid.
NoPage(query) == query.metadata \in MetadataBodies \ {"page"}

\* The response builder runs only once both requests have resolved and the
\* page is there; a query one of whose requests was rejected is never
\* fulfilled.
BuilderOnlyOnSuccess ==
    \A q \in 1..Len(queries) :
        /\ queries[q].built
              => /\ promises[queries[q].siteinfo].state = "fulfilled"
                 /\ queries[q].metadata = "page"
                 /\ queries[q].state = "fulfilled"
        /\ queries[q].state = "fulfilled" => queries[q].built
        /\ (promises[queries[q].siteinfo].state = "rejected" \/ queries[q].metadata = "failed")
              => ~queries[q].built /\ queries[q].state # "fulfilled"

\* C17 as stated: a settled query whose first page is absent, missing or
\* invalid was rejected with the 404 missingtitle error, whatever became of the
\* siteinfo lookup.
C17_MissingPageIs404 ==
    /\ BuilderOnlyOnSuccess
    /\ \A q \in 1..Len(queries) :
          (Settled(queries[q]) /\ NoPage(queries[q]))
              => /\ queries[q].state = "rejected"
                 /\ queries[q].error = "missingtitle"
                 /\ ~queries[q].built

\* C17: queryForMetadata invokes the response builder only after both the
\* siteinfo lookup and the metadata request have resolved; when both have
\* resolved and the first page is absent, missing or invalid it rejects with
\* the 404 missingtitle error and never invokes the builder; when one of the
\* two is rejected the builder is not invoked and the query is not fulfilled.
C17_MissingPageIs404WhenBothResolve ==
    /\ BuilderOnlyOnSuccess
    /\ \A q \in 1..Len(queries) :
          (/\ Settled(queries[q])
           /\ NoPage(queries[q])
           /\ promises[queries[q].siteinfo].state = "fulfilled")
              => /\ queries[q].state = "rejected"
                 /\ queries[q].error = "missingtitle"
                 /\ ~queries[q].built

\* Both requests of a query resolved, its page is marked invalid, and the
\* query was rejected with the 404.
C17_Witness ==
    /\ pc = "api"
    /\ \E q \in 1..Len(queries) :
          /\ promises[queries[q].siteinfo].state = "fulfilled"
          /\ queries[q].metadata = "invalid"
          /\ queries[q].state = "rejected"
          /\ queries[q].error = "missingtitle"

====
